---- MODULE Spec2Model ----
(***************************************************************************)
(* Movie orchestrator agent: the step router (OrchestratorAgent.run), its  *)
(* step handlers, the fan-out over image tasks and the task callbacks.     *)
(*                                                                         *)
(* The asyncio event loop is single-threaded: code between two awaits that *)
(* really suspend (log_task, create_task, a pending future) runs           *)
(* atomically.  Each action below is one such segment of a coroutine.      *)
(* ensure_sufficient_balance, validate_generic_task and                    *)
(* validate_image_generation_task contain no suspending await, so they run *)
(* inside the segment that calls them.                                     *)
(***************************************************************************)
EXTENDS Integers, Sequences, FiniteSets, TLC

\* ---------------------------------------------------------------- bounds
MaxRuns == 2        \* notifications delivered to the router
MaxTasks == 2       \* remote tasks accepted by sub-agents
MaxChars == 2       \* characters of a fan-out
MaxCallbacks == 2   \* callback events a sub-agent emits for one task
MaxBalance == 2     \* largest plan balance getPlanBalance reports

\* ------------------------------------------------------------- constants
Pending == "Pending"
Completed == "Completed"
Failed == "Failed"
Info == "Info"      \* any non-terminal task_status of a callback event

SCRIPT_GENERATOR_DID == "did:script"
CHARACTER_EXTRACTOR_DID == "did:characters"
IMAGE_GENERATOR_DID == "did:image"
THIS_PLAN_DID == "plan:this"
IMAGE_GENERATOR_PLAN_DID == "plan:image"

NoValue == "absent"
Queries == {"q1", "q2"}

\* A character is an ordered mapping: a sequence of <<key, value>> pairs.
Amy == << <<"name", "Amy">>, <<"hair", "red">> >>
Bo == << <<"name", "Bo">>, <<"hair", "black">>, <<"eyes", "blue">> >>
Cy == << <<"age", "old">>, <<"name", "Cy">> >>
AllChars == <<Amy, Bo, Cy, Amy, Bo, Cy>>
CharLists == {SubSeq(AllChars, 1, n) : n \in 0..MaxChars}

\* input_artifacts of the image step as the store holds it: a JSON text
\* (outer) that decodes to a string, itself a JSON text (inner) of the list
\* of characters.  "bad" is a text json.loads rejects; outer "list" is a
\* text that decodes to a list, not to a string (also the default "[]").
ArtifactInputs ==
    {[outer |-> "str", inner |-> "list", chars |-> cs] : cs \in CharLists}
    \cup {[outer |-> "bad", inner |-> "bad", chars |-> << >>],
          [outer |-> "str", inner |-> "bad", chars |-> << >>],
          [outer |-> "list", inner |-> "bad", chars |-> << >>]}
NoArtifacts == [outer |-> "list", inner |-> "bad", chars |-> << >>]

VARIABLES steps, runs, tasks
vars == <<steps, runs, tasks>>

\* ------------------------------------------------------------ the store
\* steps: the external step store, a sequence indexed by step_id.
NewStep(name, pred, last, status, q, ia) ==
    [name |-> name, task_id |-> "T", predecessor |-> pred, is_last |-> last,
     step_status |-> status, input_query |-> q, input_artifacts |-> ia,
     output |-> NoValue, output_artifacts |-> NoValue]

\* generate_step_id: k-th fresh identifier drawn by one init handler run.
generate_step_id(store, k) == Len(store) + k

\* update_step payloads (partial steps).
StepUpdate(status, output, hasArt, art) ==
    [step_status |-> status, output |-> output,
     has_artifacts |-> hasArt, output_artifacts |-> art]
NoUpdate == StepUpdate(NoValue, NoValue, FALSE, NoValue)

\* update_step: the store merges the partial step into the record.
update_step(store, sid, u) ==
    [store EXCEPT ![sid].step_status = u.step_status,
                  ![sid].output = u.output,
                  ![sid].output_artifacts =
                      IF u.has_artifacts THEN u.output_artifacts ELSE @]

\* create_steps: the store appends the batch; new steps start Pending and
\* their inputs are filled in later by the platform.
create_steps_dropped(store, batch) == store
create_steps(store, batch) ==
    store \o [i \in 1..Len(batch) |->
                NewStep(batch[i].name, batch[i].predecessor, batch[i].is_last,
                        Pending, NoValue, NoArtifacts)]

\* ------------------------------------------------------------- the runs
\* One record per invocation of OrchestratorAgent.run.
\*   pc       position of the coroutine
\*   sid      data["step_id"];  snap: step_status read by get_step
\*   handler  the handler the router dispatched to
\*   gate     how the balance gate went ("none": not reached), see GateCase
\*   deleg    the query_agent_with_prompt coroutines passed to gather
\*   nCreateSteps, nUpdateStep, nCreateTask: store calls made on behalf of
\*   this invocation;  batch, upd: payloads of the last create_steps and
\*   update_step;  errlog: an error-level log_message was written
IdleRun ==
    [pc |-> "idle", sid |-> 0, snap |-> NoValue, handler |-> "none",
     gate |-> "none", deleg |-> << >>,
     nCreateSteps |-> 0, nUpdateStep |-> 0, nCreateTask |-> 0,
     batch |-> << >>, upd |-> NoUpdate, errlog |-> FALSE]

Runs == 1..MaxRuns

\* ------------------------------------------------------------ init state
\* The store of one workflow at process start: the init step alone, or
\* (after a restart) the chain init created, with a prefix of it Completed.
\* The last store holds a step whose name the router does not know.
Chain(q, stage, ia) ==
    << NewStep("init", 0, FALSE, IF stage >= 1 THEN Completed ELSE Pending, q, NoArtifacts),
       NewStep("generateScript", 1, FALSE, IF stage >= 2 THEN Completed ELSE Pending, q, NoArtifacts),
       NewStep("extractCharacters", 2, FALSE, IF stage >= 3 THEN Completed ELSE Pending, q, NoArtifacts),
       NewStep("generateImagesForCharacters", 3, TRUE, Pending, q, ia) >>

InitStores ==
    {<<NewStep("init", 0, FALSE, Pending, q, NoArtifacts)>> : q \in Queries}
    \cup {Chain(q, stage, NoArtifacts) : q \in Queries, stage \in 1..2}
    \cup {Chain("q1", 3, ia) : ia \in ArtifactInputs}
    \cup {<<NewStep("summarize", 0, FALSE, Pending, "q1", NoArtifacts)>>}

Init ==
    /\ steps \in InitStores
    /\ runs = [r \in Runs |-> IdleRun]
    /\ tasks = << >>

\* ------------------------------------------------------------ the router
\* The platform notifies a step only once its predecessor is Completed
\* (ordering enforced outside the orchestrator); delivery is at-least-once,
\* so a step may be notified again at any time, whatever its status.
Deliverable(sid) ==
    /\ sid \in 1..Len(steps)
    /\ steps[sid].predecessor # 0 => steps[steps[sid].predecessor].step_status = Completed

\* run, lines 29-38: get_step, then await log_message.  get_step may raise
\* (store unreachable); nothing in run catches it.
Run(r, sid, ok) ==
    /\ runs[r].pc = "idle"
    /\ \A q \in 1..(r - 1) : runs[q].pc # "idle"
    /\ Deliverable(sid)
    /\ runs' = [runs EXCEPT ![r].sid = sid,
                            ![r].snap = IF ok THEN steps[sid].step_status ELSE NoValue,
                            ![r].pc = IF ok THEN "log" ELSE "raised"]
    /\ UNCHANGED <<steps, tasks>>

\* The name -> handler dispatch of run, lines 46-55.
HandlerOf(name) ==
    CASE name = "init" -> "init"
      [] name = "generateScript" -> "agent"
      [] name = "extractCharacters" -> "agent"
      [] name = "generateImagesForCharacters" -> "images"
      [] OTHER -> "none"

AgentOf(name) ==
    IF name = "generateScript" THEN SCRIPT_GENERATOR_DID ELSE CHARACTER_EXTRACTOR_DID

\* The Pending gate of run, lines 41-43, on the step as get_step returned it:
\* the handler to dispatch to, "none" when the notification is discarded.
RouteAlwaysDispatch(status, name) == HandlerOf(name)
Route(status, name) ==
    IF status # Pending THEN "none" ELSE HandlerOf(name)

\* run, lines 41-43 and 54-55: the step is skipped.
RouteSkip(r) ==
    /\ runs[r].pc = "log"
    /\ Route(runs[r].snap, steps[runs[r].sid].name) = "none"
    /\ runs' = [runs EXCEPT ![r].pc = "done"]
    /\ UNCHANGED <<steps, tasks>>

\* ------------------------------------------------------ the init handler
\* The three successor steps handle_init_step passes to create_steps,
\* lines 70-74.
InitSuccessorsFlat(step, sid, id1, id2, id3) ==
    << [step_id |-> id1, task_id |-> step.task_id, predecessor |-> sid,
        name |-> "generateScript", is_last |-> FALSE],
       [step_id |-> id2, task_id |-> step.task_id, predecessor |-> sid,
        name |-> "extractCharacters", is_last |-> FALSE],
       [step_id |-> id3, task_id |-> step.task_id, predecessor |-> sid,
        name |-> "generateImagesForCharacters", is_last |-> TRUE] >>
InitSuccessors(step, sid, id1, id2, id3) ==
    << [step_id |-> id1, task_id |-> step.task_id, predecessor |-> sid,
        name |-> "generateScript", is_last |-> FALSE],
       [step_id |-> id2, task_id |-> step.task_id, predecessor |-> id1,
        name |-> "extractCharacters", is_last |-> FALSE],
       [step_id |-> id3, task_id |-> step.task_id, predecessor |-> id2,
        name |-> "generateImagesForCharacters", is_last |-> TRUE] >>

\* handle_init_step, lines 65-77: three ids, create_steps, then await
\* log_message.  create_steps may raise; nothing catches it.
HandleInitStep(r, ok) ==
    /\ runs[r].pc = "log"
    /\ Route(runs[r].snap, steps[runs[r].sid].name) = "init"
    /\ LET sid == runs[r].sid
           batch == InitSuccessors(steps[sid], sid,
                                   generate_step_id(steps, 1),
                                   generate_step_id(steps, 2),
                                   generate_step_id(steps, 3))
       IN  IF ok
           THEN /\ steps' = create_steps(steps, batch)
                /\ runs' = [runs EXCEPT ![r].handler = "init",
                                        ![r].pc = "init_log",
                                        ![r].nCreateSteps = @ + 1,
                                        ![r].batch = batch]
           ELSE /\ steps' = steps
                /\ runs' = [runs EXCEPT ![r].handler = "init",
                                        ![r].pc = "raised"]
    /\ UNCHANGED tasks

\* handle_init_step, line 80: the init step is marked Completed, its
\* input_query carried forward as its output.
HandleInitStepFinish(r) ==
    /\ runs[r].pc = "init_log"
    /\ LET sid == runs[r].sid
           u == StepUpdate(Completed, steps[sid].input_query, FALSE, NoValue)
       IN  /\ steps' = update_step(steps, sid, u)
           /\ runs' = [runs EXCEPT ![r].pc = "done",
                                   ![r].nUpdateStep = @ + 1,
                                   ![r].upd = u]
    /\ UNCHANGED tasks

\* ------------------------------------------------------ the balance gate
\* ensure_sufficient_balance: order_plan is called only when the balance is
\* below the required units, and its answer decides.
ensure_sufficient_balance_unchecked(balance, required, orderSuccess) == TRUE
ensure_sufficient_balance_inclusive(balance, required, orderSuccess) ==
    IF balance <= required THEN orderSuccess ELSE TRUE
ensure_sufficient_balance(balance, required, orderSuccess) ==
    IF balance < required THEN orderSuccess ELSE TRUE

\* What the gate met, lines 8-13: "enough": the balance covers the required
\* units and order_plan is not called; "ordered": the balance is short and
\* order_plan answers success; "short": the balance is short and order_plan
\* answers failure.
GateCase(balance, required, orderSuccess) ==
    IF balance < required THEN (IF orderSuccess THEN "ordered" ELSE "short") ELSE "enough"

\* ---------------------------------------------------------- remote tasks
\* tasks: the sub-agents' task store, indexed by task_id.
\*   owner, idx   the run that created the task and, for an image task, the
\*                position of its coroutine in the gather (0: single agent)
\*   cbs          the task_status of the callback events delivered so far
\*   rec          the record get_task_with_steps last returned to
\*                validate_generic_task (NoRecord: never fetched)
\*   raised       a task_callback invocation ended in an exception
NoRecord == [fetched |-> FALSE]
NewTask(agent, query, name, owner, idx, tid) ==
    [agent |-> agent, query |-> query, name |-> name, owner |-> owner,
     idx |-> idx, output_artifacts |-> << <<"artifact", tid>> >>,
     cbs |-> << >>, raised |-> FALSE, rec |-> NoRecord]

\* ------------------------------------------------- the single-agent handler
\* handle_step_with_agent, lines 107-116: what the answer of create_task
\* does to the step store.  Both branches only call log_message.
OnCreateTaskResultMarksFailed(store, sid, accepted) ==
    IF accepted THEN store
    ELSE update_step(store, sid, StepUpdate(Failed, "Error creating task", FALSE, NoValue))
OnCreateTaskResult(store, sid, accepted) == store

\* handle_step_with_agent, lines 93-116.  Nothing suspends between the gate
\* and create_task; after create_task the handler only logs.
HandleStepWithAgent(r, balance, orderSuccess, accepted) ==
    /\ runs[r].pc = "log"
    /\ Route(runs[r].snap, steps[runs[r].sid].name) = "agent"
    /\ accepted => Len(tasks) < MaxTasks
    /\ LET sid == runs[r].sid
           step == steps[sid]
           has_balance == ensure_sufficient_balance(balance, 1, orderSuccess)
           gated == [runs EXCEPT ![r].handler = "agent",
                                 ![r].pc = "done",
                                 ![r].gate = GateCase(balance, 1, orderSuccess)]
       IN  IF ~has_balance
           THEN /\ runs' = gated
                /\ tasks' = tasks
                /\ steps' = steps
           ELSE /\ runs' = [gated EXCEPT ![r].nCreateTask = @ + 1,
                                         ![r].errlog = ~accepted]
                /\ tasks' = IF accepted
                            THEN Append(tasks, NewTask(AgentOf(step.name), step.input_query,
                                                       step.name, r, 0, Len(tasks) + 1))
                            ELSE tasks
                /\ steps' = OnCreateTaskResult(steps, sid, accepted)

\* ----------------------------------------------------- the fan-out handler
\* The two json.loads of lines 127 and 129: the first decodes the text, the
\* second needs a string that is itself the JSON text of a list.
ParseCharacters(ia) ==
    [ok |-> ia.outer = "str" /\ ia.inner = "list", chars |-> ia.chars]

\* values of the pairs whose key is not "name", in order
RECURSIVE PromptValues(_)
PromptValues(character) ==
    IF character = << >> THEN << >>
    ELSE IF Head(character)[1] # "name"
         THEN <<Head(character)[2]>> \o PromptValues(Tail(character))
         ELSE PromptValues(Tail(character))

\* ", ".join(values)
RECURSIVE Join(_)
Join(values) ==
    IF values = << >> THEN ""
    ELSE IF Len(values) = 1 THEN values[1]
    ELSE values[1] \o ", " \o Join(Tail(values))

\* generate_text_to_image_prompt, line 171
generate_text_to_image_prompt_with_name(character) ==
    Join([i \in 1..Len(character) |-> character[i][2]])
generate_text_to_image_prompt(character) == Join(PromptValues(character))

\* One query_agent_with_prompt coroutine of the gather.
\*   st   "creating": awaiting create_task;  "waiting": awaiting task_future;
\*        "ok": returned the future's result;  "failed": raised
\*   ord  its rank among the settled coroutines of the gather (0: unsettled)
NewDelegate(prompt) ==
    [st |-> "creating", tid |-> 0, res |-> NoValue, ord |-> 0, prompt |-> prompt]

Settled(d) == d.st \in {"ok", "failed"}
NumSettled(deleg) == Cardinality({i \in 1..Len(deleg) : Settled(deleg[i])})

\* handle_image_generation_for_characters, lines 127-142: parse, balance
\* gate, one coroutine per character, gather.  The parse errors and the
\* "Insufficient balance" exception are raised before the try of line 141.
HandleImageGeneration(r, balance, orderSuccess) ==
    /\ runs[r].pc = "log"
    /\ Route(runs[r].snap, steps[runs[r].sid].name) = "images"
    /\ LET step == steps[runs[r].sid]
           parsed == ParseCharacters(step.input_artifacts)
           required == Len(parsed.chars)
           has_balance == ensure_sufficient_balance(balance, required, orderSuccess)
       IN  IF ~parsed.ok
           THEN runs' = [runs EXCEPT ![r].handler = "images", ![r].pc = "raised"]
           ELSE IF ~has_balance
           THEN runs' = [runs EXCEPT ![r].handler = "images", ![r].pc = "raised",
                                     ![r].gate = GateCase(balance, required, orderSuccess)]
           ELSE runs' = [runs EXCEPT ![r].handler = "images", ![r].pc = "gather",
                                     ![r].gate = GateCase(balance, required, orderSuccess),
                                     ![r].deleg =
                                        [i \in 1..required |->
                                           NewDelegate(generate_text_to_image_prompt(parsed.chars[i]))]]
    /\ UNCHANGED <<steps, tasks>>

\* query_agent_with_prompt, lines 211-212: create_task answered with a
\* status other than 201; the coroutine raises at once.
RaiseOnRejectionKeepsWaiting(d, rank) == [d EXCEPT !.st = "waiting"]
RaiseOnRejection(d, rank) == [d EXCEPT !.st = "failed", !.ord = rank]

\* query_agent_with_prompt, lines 206-215: create_task answers; a status
\* other than 201 raises, otherwise the coroutine awaits its future.  The
\* coroutines keep running after the gather has raised (gather cancels
\* nothing).
QueryAgentWithPrompt(r, i, accepted) ==
    /\ i \in 1..Len(runs[r].deleg)
    /\ runs[r].deleg[i].st = "creating"
    /\ accepted => Len(tasks) < MaxTasks
    /\ IF accepted
       THEN /\ tasks' = Append(tasks, NewTask(IMAGE_GENERATOR_DID, runs[r].deleg[i].prompt,
                                              steps[runs[r].sid].name, r, i, Len(tasks) + 1))
            /\ runs' = [runs EXCEPT ![r].nCreateTask = @ + 1,
                                    ![r].deleg[i].st = "waiting",
                                    ![r].deleg[i].tid = Len(tasks) + 1]
       ELSE /\ tasks' = tasks
            /\ runs' = [runs EXCEPT ![r].nCreateTask = @ + 1,
                                    ![r].deleg[i] =
                                        RaiseOnRejection(@, NumSettled(runs[r].deleg) + 1)]
    /\ UNCHANGED steps

\* asyncio.gather(*tasks, return_exceptions=False), line 142: raises as soon
\* as one coroutine has raised, returns once all have returned.
GatherOutcomeCollectAll(deleg) ==
    IF \A i \in 1..Len(deleg) : Settled(deleg[i]) THEN "results" ELSE "pending"
GatherOutcome(deleg) ==
    IF \E i \in 1..Len(deleg) : deleg[i].st = "failed" THEN "raise"
    ELSE IF \A i \in 1..Len(deleg) : deleg[i].st = "ok" THEN "results"
    ELSE "pending"

\* The list gather returns: the coroutines' results in argument order.
GatherResultsBySettleOrder(deleg) ==
    [k \in 1..Len(deleg) |->
        LET i == CHOOSE j \in 1..Len(deleg) : deleg[j].ord = k IN deleg[i].res]
GatherResults(deleg) == [i \in 1..Len(deleg) |-> deleg[i].res]

\* lines 151-159: the gather raised; the step is written Failed, then logged.
GatherRaise(r) ==
    /\ runs[r].pc = "gather"
    /\ GatherOutcome(runs[r].deleg) = "raise"
    /\ LET u == StepUpdate(Failed, "One or more image tasks failed.", FALSE, NoValue)
       IN  /\ steps' = update_step(steps, runs[r].sid, u)
           /\ runs' = [runs EXCEPT ![r].pc = "done",
                                   ![r].nUpdateStep = @ + 1,
                                   ![r].upd = u,
                                   ![r].errlog = TRUE]
    /\ UNCHANGED tasks

\* lines 142-149: the gather returned; await log_message.
GatherReturn(r) ==
    /\ runs[r].pc = "gather"
    /\ GatherOutcome(runs[r].deleg) = "results"
    /\ runs' = [runs EXCEPT ![r].pc = "join_log"]
    /\ UNCHANGED <<steps, tasks>>

\* line 150: the step is written Completed with the gathered artifacts.
HandleImageGenerationComplete(r) ==
    /\ runs[r].pc = "join_log"
    /\ LET u == StepUpdate(Completed, "All image tasks completed.", TRUE,
                           GatherResults(runs[r].deleg))
       IN  /\ steps' = update_step(steps, runs[r].sid, u)
           /\ runs' = [runs EXCEPT ![r].pc = "done",
                                   ![r].nUpdateStep = @ + 1,
                                   ![r].upd = u]
    /\ UNCHANGED tasks

\* ---------------------------------------------------------- the callbacks
\* A sub-agent delivers callback events for its task, each with a
\* task_status: Info (non-terminal), Completed or Failed.  Delivery is
\* at-least-once, so a terminal event may be followed by further events.
TaskStatuses == {Info, Completed, Failed}

\* What get_task_with_steps may return for a task: the sub-agent owns the
\* record, so its task_status need not be the one of the callback event,
\* and "output" and "output_artifacts" may be missing from it.  The records
\* enumerated: a complete one in each status the record can hold, and
\* records with either key, or both, missing.
TaskRecords(task) ==
    { [task_status |-> Completed, output |-> "task output",
       output_artifacts |-> task.output_artifacts],
      [task_status |-> Failed, output |-> "task output",
       output_artifacts |-> task.output_artifacts],
      [task_status |-> Completed, output_artifacts |-> task.output_artifacts],
      [task_status |-> Completed, output |-> "task output"],
      [task_status |-> Pending] }

\* dict.get(key, default), lines 232-240.
Get(record, key, default) ==
    IF key \in DOMAIN record THEN record[key] ELSE default

\* validate_generic_task, lines 228-241: the parent step takes the status of
\* the task record get_task_with_steps returns (fetched), whatever the
\* callback event said, and the record's output and output_artifacts, with
\* the defaults of dict.get for missing keys.
validate_generic_task_trusting_event(fetched) ==
    StepUpdate(Completed,
               Get(fetched, "output", "Error during task execution"),
               TRUE,
               Get(fetched, "output_artifacts", << >>))
validate_generic_task(fetched) ==
    StepUpdate(IF fetched.task_status = Completed THEN Completed ELSE Failed,
               Get(fetched, "output", "Error during task execution"),
               TRUE,
               Get(fetched, "output_artifacts", << >>))

\* validate_image_generation_task, lines 255-257
validate_image_generation_task(task) == task.output_artifacts

\* task_callback of handle_step_with_agent, lines 99-104.
AgentTaskCallback(t, status, fetched) ==
    /\ t \in 1..Len(tasks)
    /\ tasks[t].idx = 0
    /\ Len(tasks[t].cbs) < MaxCallbacks
    /\ LET r == tasks[t].owner
           u == validate_generic_task(fetched)
       IN  /\ fetched \in TaskRecords(tasks[t])
           /\ tasks' = [tasks EXCEPT ![t].cbs = Append(@, status),
                                     ![t].rec = IF status = Completed THEN fetched ELSE @]
           /\ IF status = Completed
              THEN /\ steps' = update_step(steps, runs[r].sid, u)
                   /\ runs' = [runs EXCEPT ![r].nUpdateStep = @ + 1, ![r].upd = u]
              ELSE UNCHANGED <<steps, runs>>

\* task_callback of query_agent_with_prompt, lines 193-203: what one event
\* does to the coroutine awaiting task_future.  Completed settles the
\* future with the validated artifacts, Failed with an exception, any other
\* status is only logged; a future that is done keeps its outcome.
SettleFutureIgnoresFailed(d, status, artifacts, rank) ==
    IF status = Completed /\ ~Settled(d)
    THEN [d EXCEPT !.st = "ok", !.res = artifacts, !.ord = rank]
    ELSE d
SettleFuture(d, status, artifacts, rank) ==
    IF status = Completed /\ ~Settled(d)
    THEN [d EXCEPT !.st = "ok", !.res = artifacts, !.ord = rank]
    ELSE IF status = Failed /\ ~Settled(d)
    THEN [d EXCEPT !.st = "failed", !.ord = rank]
    ELSE d

\* task_callback of query_agent_with_prompt, lines 189-203.  set_result and
\* set_exception raise InvalidStateError on a future that is already done.
ImageTaskCallback(t, status) ==
    /\ t \in 1..Len(tasks)
    /\ tasks[t].idx # 0
    /\ Len(tasks[t].cbs) < MaxCallbacks
    /\ LET r == tasks[t].owner
           i == tasks[t].idx
           d == runs[r].deleg[i]
           rank == NumSettled(runs[r].deleg) + 1
       IN  /\ tasks' = [tasks EXCEPT ![t].cbs = Append(@, status),
                                     ![t].raised = @ \/ (status \in {Completed, Failed}
                                                         /\ Settled(d))]
           /\ runs' = [runs EXCEPT ![r].deleg[i] =
                           SettleFuture(d, status, validate_image_generation_task(tasks[t]), rank)]
    /\ UNCHANGED steps

Next ==
    \/ \E r \in Runs, sid \in 1..Len(steps), ok \in BOOLEAN : Run(r, sid, ok)
    \/ \E r \in Runs : RouteSkip(r)
    \/ \E r \in Runs, ok \in BOOLEAN : HandleInitStep(r, ok)
    \/ \E r \in Runs : HandleInitStepFinish(r)
    \/ \E r \in Runs, balance \in 0..MaxBalance, orderSuccess \in BOOLEAN, accepted \in BOOLEAN :
          HandleStepWithAgent(r, balance, orderSuccess, accepted)
    \/ \E r \in Runs, balance \in 0..MaxBalance, orderSuccess \in BOOLEAN :
          HandleImageGeneration(r, balance, orderSuccess)
    \/ \E r \in Runs, i \in 1..MaxChars, accepted \in BOOLEAN : QueryAgentWithPrompt(r, i, accepted)
    \/ \E r \in Runs : GatherRaise(r)
    \/ \E r \in Runs : GatherReturn(r)
    \/ \E r \in Runs : HandleImageGenerationComplete(r)
    \/ \E t \in 1..MaxTasks, status \in TaskStatuses :
          \E fetched \in (IF t \in 1..Len(tasks) THEN TaskRecords(tasks[t]) ELSE {}) :
              AgentTaskCallback(t, status, fetched)
    \/ \E t \in 1..MaxTasks, status \in TaskStatuses : ImageTaskCallback(t, status)

Spec == Init /\ [][Next]_vars

\* The event loop runs every coroutine that is ready: each step of a
\* router invocation, of a handler and of a gathered coroutine is
\* eventually taken.  Notifications and callback events are up to the
\* platform and the sub-agents: no fairness.
Fairness ==
    /\ WF_vars(\E r \in Runs : RouteSkip(r))
    /\ WF_vars(\E r \in Runs, ok \in BOOLEAN : HandleInitStep(r, ok))
    /\ WF_vars(\E r \in Runs : HandleInitStepFinish(r))
    /\ WF_vars(\E r \in Runs, balance \in 0..MaxBalance, orderSuccess \in BOOLEAN, accepted \in BOOLEAN :
                  HandleStepWithAgent(r, balance, orderSuccess, accepted))
    /\ WF_vars(\E r \in Runs, balance \in 0..MaxBalance, orderSuccess \in BOOLEAN :
                  HandleImageGeneration(r, balance, orderSuccess))
    /\ WF_vars(\E r \in Runs, i \in 1..MaxChars, accepted \in BOOLEAN : QueryAgentWithPrompt(r, i, accepted))
    /\ WF_vars(\E r \in Runs : GatherRaise(r))
    /\ WF_vars(\E r \in Runs : GatherReturn(r))
    /\ WF_vars(\E r \in Runs : HandleImageGenerationComplete(r))

FairSpec == Spec /\ Fairness

\* The fan-out alone: the workflow has reached the image step (its three
\* predecessors are Completed) and the notifications are those of the image
\* step, so only the router, the fan-out handler, its coroutines and the
\* image agent's callbacks act.
FanOutInit ==
    /\ steps \in {Chain("q1", 3, ia) : ia \in ArtifactInputs}
    /\ runs = [r \in Runs |-> IdleRun]
    /\ tasks = << >>

ImageSteps == {s \in 1..Len(steps) : steps[s].name = "generateImagesForCharacters"}

FanOutNext ==
    \/ \E r \in Runs, sid \in ImageSteps, ok \in BOOLEAN : Run(r, sid, ok)
    \/ \E r \in Runs : RouteSkip(r)
    \/ \E r \in Runs, balance \in 0..MaxBalance, orderSuccess \in BOOLEAN :
          HandleImageGeneration(r, balance, orderSuccess)
    \/ \E r \in Runs, i \in 1..MaxChars, accepted \in BOOLEAN : QueryAgentWithPrompt(r, i, accepted)
    \/ \E r \in Runs : GatherRaise(r)
    \/ \E r \in Runs : GatherReturn(r)
    \/ \E r \in Runs : HandleImageGenerationComplete(r)
    \/ \E t \in 1..MaxTasks, status \in TaskStatuses : ImageTaskCallback(t, status)

FanOutFairness ==
    /\ WF_vars(\E r \in Runs : RouteSkip(r))
    /\ WF_vars(\E r \in Runs, balance \in 0..MaxBalance, orderSuccess \in BOOLEAN :
                  HandleImageGeneration(r, balance, orderSuccess))
    /\ WF_vars(\E r \in Runs, i \in 1..MaxChars, accepted \in BOOLEAN : QueryAgentWithPrompt(r, i, accepted))
    /\ WF_vars(\E r \in Runs : GatherRaise(r))
    /\ WF_vars(\E r \in Runs : GatherReturn(r))
    /\ WF_vars(\E r \in Runs : HandleImageGenerationComplete(r))

FanOutFairSpec == FanOutInit /\ [][FanOutNext]_vars /\ FanOutFairness

\* ------------------------------------------- the prompt of one character
\* generate_text_to_image_prompt over a wider set of characters: the step
\* "extractCharacters" stores whatever mapping the extractor produced, so a
\* character is any ordered choice of distinct attributes, "name" at any
\* position or missing.  The image step of the store holds one of them.
MaxAttrs == 3       \* attributes of one character
AttrValue(key) ==
    CASE key = "name" -> "Nia"
      [] key = "hair" -> "red"
      [] key = "eyes" -> "blue"
      [] key = "age" -> "old"
AttrPairs == {<<key, AttrValue(key)>> : key \in {"name", "hair", "eyes", "age"}}
PromptChars ==
    {c \in UNION {[1..n -> AttrPairs] : n \in 0..MaxAttrs} :
        \A i, j \in 1..Len(c) : i # j => c[i][1] # c[j][1]}
    \cup {Amy, Bo, Cy}

PromptInit ==
    /\ steps \in {Chain("q1", 3, [outer |-> "str", inner |-> "list", chars |-> <<c>>]) :
                     c \in PromptChars}
    /\ runs = [r \in Runs |-> IdleRun]
    /\ tasks = << >>

PromptNext ==
    \/ \E r \in Runs, sid \in ImageSteps, ok \in BOOLEAN : Run(r, sid, ok)
    \/ \E r \in Runs, balance \in 0..MaxBalance, orderSuccess \in BOOLEAN :
          HandleImageGeneration(r, balance, orderSuccess)
    \/ \E r \in Runs, i \in 1..MaxChars, accepted \in BOOLEAN :
          QueryAgentWithPrompt(r, i, accepted)

PromptSpec == PromptInit /\ [][PromptNext]_vars

\* ---------------------------------------------------------------- claims
TasksOf(r) == {t \in 1..Len(tasks) : tasks[t].owner = r}
RunsOn(sid) == {r \in Runs : runs[r].pc # "idle" /\ runs[r].sid = sid}
Characters(sid) == ParseCharacters(steps[sid].input_artifacts).chars
IsTerminal(status) == status \in {Completed, Failed}
FailedDelegates(r) == {i \in 1..Len(runs[r].deleg) : runs[r].deleg[i].st = "failed"}

\* C1: a notification whose step was loaded Completed or Failed reaches no
\* handler and makes no create_steps, update_step or create_task call, for
\* every invocation of the router and at every point of its life.
C1_NonPendingDiscarded ==
    \A r \in Runs :
        runs[r].snap \in {Completed, Failed} =>
            /\ runs[r].pc \in {"log", "done"}
            /\ runs[r].handler = "none"
            /\ runs[r].nCreateSteps = 0
            /\ runs[r].nUpdateStep = 0
            /\ runs[r].nCreateTask = 0
            /\ TasksOf(r) = {}

\* Two notifications of the same step, both loaded Completed, both done.
C1_Witness ==
    /\ runs[1].pc = "done" /\ runs[2].pc = "done"
    /\ runs[1].sid = runs[2].sid
    /\ runs[1].snap = Completed /\ runs[2].snap = Completed

\* C2: whatever notifications are delivered, a step gets at most one batch
\* of successor steps and at most one remote task (one per character for
\* the image step).
C2_AtMostOncePerStep ==
    \A sid \in 1..Len(steps) :
        /\ Cardinality({r \in RunsOn(sid) : runs[r].nCreateSteps > 0}) <= 1
        /\ \A i \in 0..MaxChars :
              Cardinality({t \in 1..Len(tasks) :
                              runs[tasks[t].owner].sid = sid /\ tasks[t].idx = i}) <= 1

\* C3: the init handler calls create_steps once, with generateScript,
\* extractCharacters, generateImagesForCharacters in this order, all of the
\* init step's task, chained by predecessor from the init step, is_last on
\* the last only; then it writes the init step once: Completed, output =
\* input_query.
C3_InitCreatesChain ==
    \A r \in Runs :
        runs[r].handler = "init" /\ runs[r].pc \in {"init_log", "done"} =>
            LET S == runs[r].sid
                b == runs[r].batch
            IN  /\ runs[r].nCreateSteps = 1
                /\ Len(b) = 3
                /\ <<b[1].name, b[2].name, b[3].name>> =
                      <<"generateScript", "extractCharacters", "generateImagesForCharacters">>
                /\ \A i \in 1..3 : b[i].task_id = steps[S].task_id
                /\ b[1].predecessor = S
                /\ b[2].predecessor = b[1].step_id
                /\ b[3].predecessor = b[2].step_id
                /\ <<b[1].is_last, b[2].is_last, b[3].is_last>> = <<FALSE, FALSE, TRUE>>
                /\ Cardinality({S, b[1].step_id, b[2].step_id, b[3].step_id}) = 4
                /\ \A i \in 1..3 :
                      /\ b[i].step_id \in 1..Len(steps)
                      /\ steps[b[i].step_id].name = b[i].name
                      /\ steps[b[i].step_id].predecessor = b[i].predecessor
                /\ runs[r].pc = "init_log" => runs[r].nUpdateStep = 0
                /\ runs[r].pc = "done" =>
                      /\ runs[r].nUpdateStep = 1
                      /\ runs[r].upd = StepUpdate(Completed, steps[S].input_query, FALSE, NoValue)
                      /\ steps[S].step_status = Completed
                      /\ steps[S].output = steps[S].input_query

C3_Witness ==
    \E r \in Runs : /\ runs[r].handler = "init" /\ runs[r].pc = "done"
                    /\ steps[runs[r].sid].output = "q2"

\* C4: in a fan-out over at least one character, once a coroutine has
\* failed (task Failed or creation rejected) the handler never takes the
\* Completed path, and when it is done it has written the step exactly
\* once: Failed, the generic message, no output_artifacts.
C4_FanOutAllOrNothing ==
    \A r \in Runs :
        runs[r].handler = "images" /\ FailedDelegates(r) # {} =>
            /\ runs[r].pc \in {"gather", "done"}
            /\ runs[r].pc = "gather" => runs[r].nUpdateStep = 0
            /\ runs[r].pc = "done" =>
                  /\ runs[r].nUpdateStep = 1
                  /\ runs[r].upd = StepUpdate(Failed, "One or more image tasks failed.", FALSE, NoValue)

\* One coroutine returned artifacts, then another failed; the handler is done.
C4_Witness ==
    \E r \in Runs :
        /\ runs[r].pc = "done"
        /\ \E i, j \in 1..Len(runs[r].deleg) :
              /\ runs[r].deleg[i].st = "ok"
              /\ runs[r].deleg[j].st = "failed"
              /\ runs[r].deleg[i].ord < runs[r].deleg[j].ord

\* C5: a fan-out written Completed carries, at position i, the artifacts of
\* the one task created for character i, in whatever order the coroutines
\* settled.
C5_FanOutInputOrder ==
    \A r \in Runs :
        runs[r].handler = "images" /\ runs[r].pc = "done"
        /\ (\A i \in 1..Len(runs[r].deleg) : runs[r].deleg[i].st = "ok") =>
            LET chars == Characters(runs[r].sid)
                art == runs[r].upd.output_artifacts
            IN  /\ runs[r].upd.step_status = Completed
                /\ runs[r].upd.has_artifacts
                /\ Len(art) = Len(chars)
                /\ \A i \in 1..Len(chars) :
                      \E t \in TasksOf(r) :
                          /\ tasks[t].idx = i
                          /\ tasks[t].query = generate_text_to_image_prompt(chars[i])
                          /\ art[i] = tasks[t].output_artifacts
                          /\ \A u \in TasksOf(r) : tasks[u].idx = i => u = t

\* Completed although the second character's task settled first.
C5_Witness ==
    \E r \in Runs :
        /\ runs[r].pc = "done" /\ runs[r].upd.step_status = Completed
        /\ Len(runs[r].deleg) = 2
        /\ runs[r].deleg[2].ord < runs[r].deleg[1].ord
        /\ steps[runs[r].sid].output_artifacts = runs[r].upd.output_artifacts

\* C6: when the single-agent handler meets a balance below 1 and order_plan
\* fails, it returns without create_task and without update_step; unless
\* another invocation wrote the step, it is still Pending.
C6_AgentGateStalls ==
    \A r \in Runs :
        runs[r].handler = "agent" /\ runs[r].gate = "short" =>
            /\ runs[r].pc = "done"
            /\ runs[r].nCreateTask = 0
            /\ runs[r].nUpdateStep = 0
            /\ TasksOf(r) = {}
            /\ (\A q \in RunsOn(runs[r].sid) : runs[q].nUpdateStep = 0) =>
                  steps[runs[r].sid].step_status = Pending

C6_Witness ==
    \E r \in Runs : /\ runs[r].handler = "agent" /\ runs[r].gate = "short"
                    /\ runs[r].pc = "done"
                    /\ steps[runs[r].sid].name = "extractCharacters"

\* C7: when the fan-out handler meets a balance below the number of
\* characters and order_plan fails, the handler catches the failure, writes
\* the step Failed and creates no image task.
C7_FanOutGateMarksFailed ==
    \A r \in Runs :
        runs[r].handler = "images" /\ runs[r].gate = "short" =>
            /\ runs[r].pc = "done"
            /\ runs[r].nUpdateStep = 1
            /\ runs[r].upd.step_status = Failed
            /\ runs[r].nCreateTask = 0

\* C8: no error raised by get_step or by a handler leaves run.
C8_NoErrorLeavesRun ==
    \A r \in Runs : runs[r].pc # "raised"

\* C9: a Failed callback event of a task is followed by the owning step
\* being Failed.
C9_RemoteFailureFailsStep ==
    \A t \in 1..MaxTasks :
        (t \in 1..Len(tasks) /\ \E k \in 1..Len(tasks[t].cbs) : tasks[t].cbs[k] = Failed)
            ~> (t \in 1..Len(tasks) /\ steps[runs[tasks[t].owner].sid].step_status = Failed)

\* C10: the future of a query_agent_with_prompt coroutine is unsettled
\* while no terminal event came, settled as the first terminal event says
\* afterwards, and no callback invocation ends in an error.
C10_FutureSingleAssignment ==
    \A t \in 1..Len(tasks) :
        tasks[t].idx # 0 =>
            LET d == runs[tasks[t].owner].deleg[tasks[t].idx]
                terms == SelectSeq(tasks[t].cbs, IsTerminal)
            IN  /\ terms = << >> => d.st = "waiting"
                /\ (terms # << >> /\ terms[1] = Completed) =>
                      d.st = "ok" /\ d.res = tasks[t].output_artifacts
                /\ (terms # << >> /\ terms[1] = Failed) => d.st = "failed"
                /\ ~tasks[t].raised

\* C11: the fan-out handler writes the step's terminal status only when
\* every coroutine of its gather has settled.
C11_JoinWaitsForAll ==
    \A r \in Runs :
        runs[r].handler = "images" /\ runs[r].nUpdateStep > 0 =>
            \A i \in 1..Len(runs[r].deleg) : Settled(runs[r].deleg[i])

\* C12: when create_task is rejected in the single-agent handler, the
\* handler writes an error log and returns without update_step; unless
\* another invocation wrote the step, it is still Pending.
C12_AgentRejectionOnlyLogs ==
    \A r \in Runs :
        runs[r].handler = "agent" /\ runs[r].nCreateTask = 1 /\ TasksOf(r) = {} =>
            /\ runs[r].pc = "done"
            /\ runs[r].errlog
            /\ runs[r].nUpdateStep = 0
            /\ runs[r].upd = NoUpdate
            /\ (\A q \in RunsOn(runs[r].sid) : runs[q].nUpdateStep = 0) =>
                  steps[runs[r].sid].step_status = Pending

\* A rejected create_task for generateScript, the step still Pending.
C12_Witness ==
    \E r \in Runs :
        /\ runs[r].handler = "agent" /\ runs[r].nCreateTask = 1 /\ TasksOf(r) = {}
        /\ runs[r].pc = "done"
        /\ steps[runs[r].sid].name = "generateScript"
        /\ steps[runs[r].sid].step_status = Pending

Rejected(d) == d.st # "creating" /\ d.tid = 0
RejectedDelegates(r) == {i \in 1..Len(runs[r].deleg) : Rejected(runs[r].deleg[i])}
WroteFailed(r) == runs[r].pc = "done" /\ runs[r].upd.step_status = Failed

C14_MalformedPayloadMarksFailed ==
    \A r \in Runs :
        runs[r].handler = "images"
        /\ ~ParseCharacters(steps[runs[r].sid].input_artifacts).ok =>
            /\ runs[r].pc = "done"
            /\ runs[r].nUpdateStep = 1
            /\ runs[r].upd.step_status = Failed
            /\ runs[r].errlog


\* C15: each Completed callback event of a single-agent task makes exactly
\* one update_step call, on the parent step: its step_status is Completed
\* exactly when the fetched task record's status is Completed and Failed for
\* any other fetched status, its output and output_artifacts are the
\* record's, or "Error during task execution" and the empty list when the
\* record lacks them; no other step and no other field of the parent step
\* changes.
C15_ValidateGenericTask ==
    [][\A t \in 1..Len(tasks) :
          /\ tasks[t].idx = 0
          /\ tasks'[t].cbs = Append(tasks[t].cbs, Completed)
          => LET rec == tasks'[t].rec
                 r == tasks[t].owner
                 sid == runs[r].sid
                 was == steps[sid]
                 now == steps'[sid]
             IN  /\ runs'[r].nUpdateStep = runs[r].nUpdateStep + 1
                 /\ now.step_status \in {Completed, Failed}
                 /\ now.step_status = Completed <=> rec.task_status = Completed
                 /\ "output" \in DOMAIN rec => now.output = rec.output
                 /\ "output" \notin DOMAIN rec => now.output = "Error during task execution"
                 /\ "output_artifacts" \in DOMAIN rec =>
                        now.output_artifacts = rec.output_artifacts
                 /\ "output_artifacts" \notin DOMAIN rec => now.output_artifacts = << >>
                 /\ now.name = was.name /\ now.predecessor = was.predecessor
                 /\ now.input_query = was.input_query
                 /\ now.input_artifacts = was.input_artifacts
                 /\ Len(steps') = Len(steps)
                 /\ \A s \in 1..Len(steps) : s # sid => steps'[s] = steps[s]
      ]_vars
C15_Witness ==
    \E t \in 1..Len(tasks) :
        /\ tasks[t].idx = 0
        /\ tasks[t].cbs = <<Completed>>
        /\ tasks[t].rec = [task_status |-> Pending]
        /\ runs[tasks[t].owner].nUpdateStep = 1
        /\ steps[runs[tasks[t].owner].sid].step_status = Failed
        /\ steps[runs[tasks[t].owner].sid].output = "Error during task execution"
        /\ steps[runs[tasks[t].owner].sid].output_artifacts = << >>


\* C16: the query of every task created for the image agent is the values
\* of the character's attributes other than "name", in the order the
\* character declares them, separated by ", "; {name: Amy, hair: red} gives
\* "red" and {name: Bo, hair: black, eyes: blue} gives "black, blue".
RECURSIVE ValuesJoined(_, _)
ValuesJoined(pairs, n) ==
    IF n = 0 THEN ""
    ELSE IF n = 1 THEN pairs[1][2]
    ELSE ValuesJoined(pairs, n - 1) \o ", " \o pairs[n][2]
IsNotName(pair) == pair[1] # "name"
ExpectedPrompt(character) ==
    ValuesJoined(SelectSeq(character, IsNotName), Len(SelectSeq(character, IsNotName)))
C16_PromptIsJoinedValues ==
    \A t \in 1..Len(tasks) :
        tasks[t].idx > 0 =>
            LET character == Characters(runs[tasks[t].owner].sid)[tasks[t].idx]
            IN  /\ tasks[t].agent = IMAGE_GENERATOR_DID
                /\ tasks[t].query = ExpectedPrompt(character)
                /\ character = Amy => tasks[t].query = "red"
                /\ character = Bo => tasks[t].query = "black, blue"
C16_Witness ==
    \E t \in 1..Len(tasks) :
        /\ tasks[t].idx > 0
        /\ Characters(runs[tasks[t].owner].sid)[tasks[t].idx] =
               << <<"hair", "red">>, <<"name", "Nia">>, <<"age", "old">> >>
        /\ tasks[t].query = "red, old"


\* C17: no step of the system changes the step_status of a step the store
\* holds as Completed or Failed.
C17_TerminalStatusAbsorbing ==
    [][\A s \in 1..Len(steps) :
          IsTerminal(steps[s].step_status) =>
              steps'[s].step_status = steps[s].step_status]_vars


\* C18: whenever the store holds an init step as Completed, the three
\* successor steps chained from it are in the store; an init handler whose
\* create_steps raised has issued no update_step, and the init step is
\* still Pending unless another invocation wrote it.
HasSuccessors(s) ==
    \E a, b, c \in 1..Len(steps) :
        /\ steps[a].name = "generateScript" /\ steps[a].predecessor = s
        /\ steps[b].name = "extractCharacters" /\ steps[b].predecessor = a
        /\ steps[c].name = "generateImagesForCharacters" /\ steps[c].predecessor = b
C18_InitCompletedAfterCreateSteps ==
    /\ \A s \in 1..Len(steps) :
          steps[s].name = "init" /\ steps[s].step_status = Completed => HasSuccessors(s)
    /\ \A r \in Runs :
          runs[r].handler = "init" /\ runs[r].pc = "raised" =>
              /\ runs[r].nCreateSteps = 0
              /\ runs[r].nUpdateStep = 0
              /\ (\A q \in RunsOn(runs[r].sid) : runs[q].nUpdateStep = 0) =>
                    steps[runs[r].sid].step_status = Pending
C18_Witness ==
    \E r, q \in Runs :
        /\ runs[r].handler = "init" /\ runs[r].pc = "done"
        /\ steps[runs[r].sid].step_status = Completed
        /\ HasSuccessors(runs[r].sid)
        /\ runs[q].handler = "init" /\ runs[q].pc = "raised"
        /\ runs[q].sid = runs[r].sid


\* C19: a fan-out that passed its balance gate ends with a terminal write:
\* if every image task created for an invocation eventually has a Completed
\* or Failed callback event delivered, then the invocation, once at the
\* gather, eventually writes the step Completed or Failed.  Tasks are never
\* removed and delivered events are never forgotten, so the hypothesis is
\* that again and again all the image tasks created so far for the
\* invocation have had their terminal event.
HasTerminalCallback(t) ==
    \E k \in 1..Len(tasks[t].cbs) : IsTerminal(tasks[t].cbs[k])
ImageTasksOf(r) == {t \in TasksOf(r) : tasks[t].idx > 0}
WroteTerminal(r) ==
    /\ runs[r].pc = "done"
    /\ runs[r].nUpdateStep = 1
    /\ IsTerminal(runs[r].upd.step_status)
C19_FanOutTerminates ==
    \A r \in Runs :
        []<>(\A t \in ImageTasksOf(r) : HasTerminalCallback(t))
        => ((runs[r].handler = "images" /\ runs[r].pc = "gather") ~> WroteTerminal(r))
C19_Witness ==
    \E r \in Runs :
        /\ runs[r].handler = "images"
        /\ WroteTerminal(r)
        /\ runs[r].upd.step_status = Failed
        /\ Len(runs[r].deleg) = 2
        /\ \A i \in 1..2 : /\ runs[r].deleg[i].tid # 0
                           /\ HasTerminalCallback(runs[r].deleg[i].tid)


\* C20: a fan-out whose input_artifacts decodes to an empty list of
\* characters passes the balance gate without ordering credits, whatever
\* the balance, creates no task and no coroutine, has a gather that returns
\* at once, and writes the step Completed with an empty output_artifacts.
C20_EmptyFanOutCompletes ==
    \A r \in Runs :
        /\ runs[r].handler = "images"
        /\ ParseCharacters(steps[runs[r].sid].input_artifacts).ok
        /\ Characters(runs[r].sid) = << >>
        => /\ runs[r].gate = "enough"
           /\ runs[r].pc \in {"gather", "join_log", "done"}
           /\ runs[r].deleg = << >>
           /\ runs[r].nCreateTask = 0
           /\ TasksOf(r) = {}
           /\ runs[r].pc = "gather" => GatherOutcome(runs[r].deleg) = "results"
           /\ runs[r].pc # "done" => runs[r].nUpdateStep = 0
           /\ runs[r].pc = "done" =>
                 /\ runs[r].nUpdateStep = 1
                 /\ runs[r].upd = StepUpdate(Completed, "All image tasks completed.", TRUE, << >>)
                 /\ steps[runs[r].sid].step_status = Completed
                 /\ steps[runs[r].sid].output_artifacts = << >>
C20_Witness ==
    \E r \in Runs :
        /\ runs[r].handler = "images"
        /\ ParseCharacters(steps[runs[r].sid].input_artifacts).ok
        /\ Characters(runs[r].sid) = << >>
        /\ runs[r].pc = "done"
        /\ steps[runs[r].sid].step_status = Completed
        /\ tasks = << >>
====
